---- MODULE Spec2Model ----
(***************************************************************************)
(* Digital Rolodex: the contact directory (rolodex.py), the record codec   *)
(* (contact.py) and the JSON store (storage.py).                           *)
(*                                                                         *)
(* A Python str is a sequence of one-character strings, so that strip(),   *)
(* lower() and the regular expression of is_valid_email are computed       *)
(* character by character.  Python's None is the value None below.         *)
(***************************************************************************)
EXTENDS Integers, Sequences, FiniteSets, TLC

VARIABLES
    fs,       \* the file system: path -> file content
    rolodex,  \* Rolodex._contacts of each Rolodex instance
    last,     \* the last Rolodex call: its arguments, its outcome, the state before it,
              \* whether its save succeeded, whether the latest save of all failed
    sv,       \* the position of a save_contacts call that is run step by step
    loaded,   \* what the last stand-alone load_contacts call returned
    failures, \* how many save_contacts calls have failed
    pool,     \* the kind of edit this run makes (PoolNames)
    adds      \* the arguments of the add_contact calls that returned, in order, in
              \* a run that opens an empty Rolodex and makes no edit and no delete

vars == <<fs, rolodex, last, sv, loaded, failures, pool, adds>>

----------------------------------------------------------------------------
(* Bounds of the model                                                     *)

\* the longest _contacts list an add may extend
MaxContacts == 2

\* the most save_contacts calls that fail in one run
MaxFailures == 1

\* the longest list in the file that load_contacts is run on
MaxFileItems == 3

\* the longest list save_contacts is called with
MaxSaveItems == 2

\* the most items in a file that is loaded and saved back
MaxResaved == 2

\* the most contacts in the file of a Rolodex that is edited
MaxEdited == 2

\* the most contacts in the file of a Rolodex that is listed and searched
MaxListed == 3

----------------------------------------------------------------------------
(* Python values                                                           *)

\* None: a one-element sequence no str of the model equals, so that it can
\* be compared with a str
None == <<"None">>

\* `value or ""`
OrEmpty(v) == IF v = None THEN <<>> ELSE v

\* bool(value) of a str or None: `not value` is its negation
Truthy(v) == v # None /\ v # <<>>

\* str.isspace of one character
IsSpace(ch) == ch \in {" ", "\t", "\n"}

\* str.lower of one character
LowerChar(ch) ==
    CASE ch = "A" -> "a"
      [] ch = "B" -> "b"
      [] ch = "C" -> "c"
      [] ch = "N" -> "n"
      [] ch = "M" -> "m"
      [] ch = "X" -> "x"
      [] OTHER -> ch

\* str.lower()
Lower(s) == [i \in 1..Len(s) |-> LowerChar(s[i])]

\* str.lstrip()
RECURSIVE LStrip(_)
LStrip(s) == IF s # <<>> /\ IsSpace(Head(s)) THEN LStrip(Tail(s)) ELSE s

\* str.rstrip()
RECURSIVE RStrip(_)
RStrip(s) ==
    IF s # <<>> /\ IsSpace(s[Len(s)]) THEN RStrip(SubSeq(s, 1, Len(s) - 1)) ELSE s

\* str.strip()
Strip(s) == RStrip(LStrip(s))

----------------------------------------------------------------------------
(* contact.py                                                              *)

Keys == {"name", "address", "phone_num", "email", "birth_date"}

\* Contact.__init__: the five attributes
Contact(name, address, phone_num, email, birth_date) ==
    [name |-> name, address |-> address, phone_num |-> phone_num,
     email |-> email, birth_date |-> birth_date]

\* dict.get(key): None for a missing key
Get(d, key) == IF key \in DOMAIN d THEN d[key] ELSE None

\* Contact.to_dict: a dict with all five keys
to_dict_no_birth_date(c) ==
    [k \in Keys |->
        CASE k = "name" -> c.name
          [] k = "address" -> c.address
          [] k = "phone_num" -> c.phone_num
          [] k = "email" -> c.email
          [] k = "birth_date" -> None]

to_dict_trimmed(c) ==
    [k \in Keys |->
        CASE k = "name" -> Strip(c.name)
          [] k = "address" -> c.address
          [] k = "phone_num" -> c.phone_num
          [] k = "email" -> c.email
          [] k = "birth_date" -> c.birth_date]

to_dict(c) ==
    [k \in Keys |->
        CASE k = "name" -> c.name
          [] k = "address" -> c.address
          [] k = "phone_num" -> c.phone_num
          [] k = "email" -> c.email
          [] k = "birth_date" -> c.birth_date]

\* Contact.from_dict raises ValueError when `not name`
from_dict_raises(d) == ~Truthy(Get(d, "name"))

\* Contact.from_dict, where it does not raise
from_dict_phone(d) ==
    Contact(Get(d, "name"), Get(d, "address"), Get(d, "phone"),
            Get(d, "email"), Get(d, "birth_date"))

from_dict(d) ==
    Contact(Get(d, "name"), Get(d, "address"), Get(d, "phone_num"),
            Get(d, "email"), Get(d, "birth_date"))

\* Contact.is_minimally_complete
is_minimally_complete(c) == Truthy(c.name) /\ (Truthy(c.email) \/ Truthy(c.phone_num))

\* Contact.is_valid_email: re.match(r"[^@]+@[^@]+\.[^@]+", email), a match of
\* a prefix of the string
is_valid_email(s) ==
    \E a \in 2..Len(s) :
        /\ s[a] = "@"
        /\ \A i \in 1..(a - 1) : s[i] # "@"
        /\ \E d \in (a + 2)..(Len(s) - 1) :
              /\ s[d] = "."
              /\ \A i \in (a + 1)..(d - 1) : s[i] # "@"
              /\ s[d + 1] # "@"

IsDigit(ch) == ch \in {"0", "1", "2", "3", "4", "5", "6", "7", "8", "9"}

DigitVal(ch) ==
    CASE ch = "0" -> 0 [] ch = "1" -> 1 [] ch = "2" -> 2 [] ch = "3" -> 3
      [] ch = "4" -> 4 [] ch = "5" -> 5 [] ch = "6" -> 6 [] ch = "7" -> 7
      [] ch = "8" -> 8 [] ch = "9" -> 9 [] OTHER -> 0

RECURSIVE NumVal(_)
NumVal(s) == IF s = <<>> THEN 0 ELSE 10 * NumVal(SubSeq(s, 1, Len(s) - 1)) + DigitVal(s[Len(s)])

AllDigits(s) == s # <<>> /\ \A i \in 1..Len(s) : IsDigit(s[i])

IsLeap(y) == (y % 4 = 0 /\ y % 100 # 0) \/ y % 400 = 0

DaysInMonth(y, m) ==
    CASE m \in {4, 6, 9, 11} -> 30
      [] m = 2 -> IF IsLeap(y) THEN 29 ELSE 28
      [] OTHER -> 31

\* Contact.is_valid_birth_date: datetime.strptime(birth_date, "%Y-%m-%d")
\* succeeds: four digits of year, one or two digits of month and of day (or
\* a space and one digit of day), a date of the calendar, year 1 or later
is_valid_birth_date(s) ==
    \E p \in 1..Len(s), q \in 1..Len(s) :
        /\ p < q /\ s[p] = "-" /\ s[q] = "-"
        /\ LET y == SubSeq(s, 1, p - 1)
               m == SubSeq(s, p + 1, q - 1)
               d == SubSeq(s, q + 1, Len(s))
           IN  /\ Len(y) = 4 /\ AllDigits(y) /\ NumVal(y) >= 1
               /\ Len(m) \in {1, 2} /\ AllDigits(m) /\ NumVal(m) \in 1..12
               /\ \/ Len(d) \in {1, 2} /\ AllDigits(d)
                  \/ Len(d) = 2 /\ d[1] = " " /\ IsDigit(d[2])
               /\ NumVal(d) \in 1..DaysInMonth(NumVal(y), NumVal(m))

----------------------------------------------------------------------------
(* storage.py: the content of a file                                       *)

\* no file at the path
Missing == [kind |-> "missing"]

\* a file open() cannot read (a directory, no permission)
Unreadable == [kind |-> "unreadable"]

\* text that json.load rejects: an empty file, "{"
Corrupt == [kind |-> "corrupt"]

\* valid JSON whose root is not a list
NonList == [kind |-> "nonlist"]

\* the complete JSON text of a list of items
ListFile(items) == [kind |-> "list", items |-> items]

\* the text of a list cut off after some of its items: json.load rejects it
PartialFile(items) == [kind |-> "partial", items |-> items]

\* an element of a JSON list: a dict, or a value that is none (123)
JDict(d) == [kind |-> "dict", d |-> d]

JScalar == [kind |-> "scalar"]

\* an element of the list handed to save_contacts: a Contact instance (a
\* pre-serialized dict is a JDict)
Inst(c) == [kind |-> "Contact", c |-> c]

\* the path of the contacts file
file_path == "contacts.json"

\* storage.py:128 and :135, tmp_path = f"{file_path}.tmp"
tmp_path_direct(p) == p

tmp_path(p) == p \o ".tmp"

Paths == {file_path, tmp_path(file_path)}

\* os.path.exists
Exists(f, p) == f[p] # Missing

----------------------------------------------------------------------------
(* storage.load_contacts                                                   *)

\* the loop over the items of the list: an item that is no dict, a dict
\* from_dict rejects and a contact without email are skipped
RECURSIVE LoadItems_break(_)
LoadItems_break(items) ==
    IF items = <<>> THEN <<>>
    ELSE LET item == Head(items)
         IN  IF item.kind # "dict" THEN <<>>
             ELSE IF from_dict_raises(item.d) THEN <<>>
             ELSE IF ~Truthy(from_dict(item.d).email) THEN <<>>
             ELSE <<from_dict(item.d)>> \o LoadItems_break(Tail(items))

RECURSIVE LoadItems(_)
LoadItems(items) ==
    IF items = <<>> THEN <<>>
    ELSE LET item == Head(items)
             rest == LoadItems(Tail(items))
         IN  IF item.kind # "dict" THEN rest
             ELSE IF from_dict_raises(item.d) THEN rest
             ELSE IF ~Truthy(from_dict(item.d).email) THEN rest
             ELSE <<from_dict(item.d)>> \o rest

\* the body of the try block: the exception it ends with ("none": it
\* returns `value`)
LoadTry(content) ==
    CASE content.kind = "missing" -> [exc |-> "FileNotFoundError", value |-> <<>>]
      [] content.kind = "unreadable" -> [exc |-> "OSError", value |-> <<>>]
      [] content.kind \in {"corrupt", "partial"} -> [exc |-> "JSONDecodeError", value |-> <<>>]
      [] content.kind = "nonlist" -> [exc |-> "none", value |-> <<>>]
      [] OTHER -> [exc |-> "none", value |-> LoadItems(content.items)]

\* the except clauses: FileNotFoundError, json.JSONDecodeError, Exception
LoadHandled_first_run == {"FileNotFoundError"}

LoadHandled == {"FileNotFoundError", "JSONDecodeError", "OSError"}

\* load_contacts(file_path): what it returns, or that it raises
load_result(content) ==
    LET t == LoadTry(content)
    IN  IF t.exc = "none" THEN [raised |-> FALSE, value |-> t.value]
        ELSE IF t.exc \in LoadHandled THEN [raised |-> FALSE, value |-> <<>>]
        ELSE [raised |-> TRUE, value |-> <<>>]

load_contacts(content) == load_result(content).value

----------------------------------------------------------------------------
(* storage.save_contacts                                                   *)

\* storage.py:123: c.to_dict() if isinstance(c, Contact) else c
SaveData(contacts) ==
    [i \in 1..Len(contacts) |->
        IF contacts[i].kind = "Contact" THEN JDict(to_dict(contacts[i].c)) ELSE contacts[i]]

SaveSteps == {"makedirs", "open", "dump", "replace"}

\* the call before its first step
SaveStart(f, contacts) ==
    [pc |-> "makedirs", contacts |-> contacts, n |-> 0, failed |-> FALSE,
     old |-> f[file_path]]

SaveIdle == [pc |-> "idle", contacts |-> <<>>, n |-> 0, failed |-> FALSE, old |-> Missing]

\* os.replace(src, dst): one atomic step
Replace(f, src, dst) ==
    IF src = dst THEN f ELSE [f EXCEPT ![dst] = f[src], ![src] = Missing]

\* the except block, storage.py:134-140: os.remove(tmp_path) when the file
\* exists; an error of os.remove (`fail`) is swallowed
Cleanup_destination(f, fail) ==
    IF Exists(f, file_path) /\ ~fail THEN [f EXCEPT ![file_path] = Missing] ELSE f

Cleanup_never(f, fail) == f

Cleanup(f, fail) ==
    IF Exists(f, tmp_path(file_path)) /\ ~fail
    THEN [f EXCEPT ![tmp_path(file_path)] = Missing]
    ELSE f

\* One step of save_contacts from position s.pc on the file system f; `fail`:
\* the step raises.  makedirs; open(tmp_path, "w"); json.dump item by item,
\* then the close of the with block; os.replace; the except block with its
\* best-effort os.remove.
SaveStep(s, f, fail) ==
    LET tmp == tmp_path(file_path)
        data == SaveData(s.contacts)
    IN  CASE s.pc = "makedirs" ->
                [sv |-> [s EXCEPT !.pc = IF fail THEN "except" ELSE "open"], fs |-> f]
          [] s.pc = "open" ->
                IF fail THEN [sv |-> [s EXCEPT !.pc = "except"], fs |-> f]
                ELSE [sv |-> [s EXCEPT !.pc = "dump", !.n = 0],
                      fs |-> [f EXCEPT ![tmp] = PartialFile(<<>>)]]
          [] s.pc = "dump" ->
                IF fail THEN [sv |-> [s EXCEPT !.pc = "except"], fs |-> f]
                ELSE IF s.n < Len(data)
                THEN [sv |-> [s EXCEPT !.n = s.n + 1],
                      fs |-> [f EXCEPT ![tmp] = PartialFile(SubSeq(data, 1, s.n + 1))]]
                ELSE [sv |-> [s EXCEPT !.pc = "replace"],
                      fs |-> [f EXCEPT ![tmp] = ListFile(data)]]
          [] s.pc = "replace" ->
                IF fail THEN [sv |-> [s EXCEPT !.pc = "except"], fs |-> f]
                ELSE [sv |-> [s EXCEPT !.pc = "return"], fs |-> Replace(f, tmp, file_path)]
          [] s.pc = "except" ->
                [sv |-> [s EXCEPT !.pc = "return", !.failed = TRUE],
                 fs |-> Cleanup(f, fail)]
          [] OTHER -> [sv |-> s, fs |-> f]

\* the whole call: the step `failAt` raises (at item `failN` when it is the
\* dump; "none": no step raises), and os.remove of the except block raises
\* when cleanupFails
RECURSIVE SaveRun(_, _, _, _)
SaveRun(st, failAt, failN, cleanupFails) ==
    IF st.sv.pc = "return" THEN st
    ELSE LET fail == IF st.sv.pc = "except" THEN cleanupFails
                     ELSE st.sv.pc = failAt /\ (failAt = "dump" => st.sv.n = failN)
         IN  SaveRun(SaveStep(st.sv, st.fs, fail), failAt, failN, cleanupFails)

\* save_contacts(file_path, contacts)
save_contacts_merged(f, contacts, failAt, failN, cleanupFails) ==
    LET held == load_contacts(f[file_path])
        kept == SelectSeq([i \in 1..Len(held) |-> Inst(held[i])],
                          LAMBDA x : \A i \in 1..Len(contacts) : contacts[i] # x)
    IN  SaveRun([sv |-> SaveStart(f, kept \o contacts), fs |-> f],
                failAt, failN, cleanupFails)

save_contacts(f, contacts, failAt, failN, cleanupFails) ==
    SaveRun([sv |-> SaveStart(f, contacts), fs |-> f], failAt, failN, cleanupFails)

----------------------------------------------------------------------------
(* rolodex.py                                                              *)

\* Rolodex.save hands the list of Contact instances to save_contacts
Instances(contacts) == [i \in 1..Len(contacts) |-> Inst(contacts[i])]

\* the outcome of a Rolodex call: the ValueError it raises (err "none": it
\* returns ret), and the _contacts list it leaves
Raise(why, contacts) ==
    [err |-> "ValueError", why |-> why, ret |-> None, contacts |-> contacts]

Return(ret, contacts) ==
    [err |-> "none", why |-> "none", ret |-> ret, contacts |-> contacts]

\* rolodex.py:64, the key an existing contact is compared by on add
AddKey(c) == Lower(OrEmpty(c.email))

\* rolodex.py:98, :176 and :206, the key of an existing contact in
\* get_by_email, edit_contact and delete_contact
EmailKey(c) == Lower(Strip(OrEmpty(c.email)))

\* Rolodex.add_contact up to the append (the save follows in the action)
add_contact_untrimmed(contacts, arg) ==
    IF arg.kind = "dict" /\ from_dict_raises(arg.d)
    THEN Raise("name_required", contacts)
    ELSE LET contact == IF arg.kind = "Contact" THEN arg.c ELSE from_dict(arg.d)
             name == OrEmpty(contact.name)
             email == OrEmpty(contact.email)
             added == [contact EXCEPT !.name = name, !.email = email]
         IN  IF name = <<>> \/ email = <<>> THEN Raise("required", contacts)
             ELSE IF \E i \in 1..Len(contacts) : AddKey(contacts[i]) = Lower(email)
             THEN Raise("duplicate", contacts)
             ELSE Return(added, Append(contacts, added))

add_contact_lower(contacts, arg) ==
    IF arg.kind = "dict" /\ from_dict_raises(arg.d)
    THEN Raise("name_required", contacts)
    ELSE LET contact == IF arg.kind = "Contact" THEN arg.c ELSE from_dict(arg.d)
             name == Strip(OrEmpty(contact.name))
             email_key == Lower(Strip(OrEmpty(contact.email)))
             added == [contact EXCEPT !.name = name, !.email = email_key]
         IN  IF name = <<>> \/ email_key = <<>> THEN Raise("required", contacts)
             ELSE IF \E i \in 1..Len(contacts) : AddKey(contacts[i]) = email_key
             THEN Raise("duplicate", contacts)
             ELSE Return(added, Append(contacts, added))

add_contact(contacts, arg) ==
    IF arg.kind = "dict" /\ from_dict_raises(arg.d)
    THEN Raise("name_required", contacts)
    ELSE LET contact == IF arg.kind = "Contact" THEN arg.c ELSE from_dict(arg.d)
             name == Strip(OrEmpty(contact.name))
             email == Strip(OrEmpty(contact.email))
             email_key == Lower(email)
             added == [contact EXCEPT !.name = name, !.email = email]
         IN  IF name = <<>> \/ email = <<>> THEN Raise("required", contacts)
             ELSE IF \E i \in 1..Len(contacts) : AddKey(contacts[i]) = email_key
             THEN Raise("duplicate", contacts)
             ELSE Return(added, Append(contacts, added))

\* the index of the first contact whose email matches, 0 for none
FirstMatch(contacts, key) ==
    IF \E i \in 1..Len(contacts) : EmailKey(contacts[i]) = key
    THEN CHOOSE i \in 1..Len(contacts) :
            /\ EmailKey(contacts[i]) = key
            /\ \A j \in 1..(i - 1) : EmailKey(contacts[j]) # key
    ELSE 0

\* the code point of a character, for the comparison of str values
Ord(ch) ==
    CASE ch = " " -> 32  [] ch = "-" -> 45  [] ch = "." -> 46
      [] ch = "0" -> 48  [] ch = "1" -> 49  [] ch = "2" -> 50  [] ch = "9" -> 57
      [] ch = "@" -> 64
      [] ch = "A" -> 65  [] ch = "B" -> 66  [] ch = "C" -> 67  [] ch = "M" -> 77
      [] ch = "N" -> 78  [] ch = "X" -> 88
      [] ch = "a" -> 97  [] ch = "b" -> 98  [] ch = "c" -> 99  [] ch = "m" -> 109
      [] ch = "n" -> 110 [] ch = "p" -> 112 [] ch = "q" -> 113 [] ch = "x" -> 120
      [] ch = "z" -> 122

\* a < b of two str values: the first character that differs decides, a
\* proper prefix is less
StrLess(a, b) ==
    \E k \in 1..Len(b) :
        /\ k <= Len(a) + 1
        /\ \A i \in 1..(k - 1) : a[i] = b[i]
        /\ k <= Len(a) => Ord(a[k]) < Ord(b[k])

\* the attribute name a str spells
RECURSIVE Join(_)
Join(chars) == IF chars = <<>> THEN "" ELSE Head(chars) \o Join(Tail(chars))

\* list_contacts, rolodex.py:86-88: the key a contact is sorted by
sort_key_case(c, key) == OrEmpty(c[key])

sort_key(c, key) == Lower(OrEmpty(c[key]))

\* sorted() takes the elements in their order and keeps those of equal key
\* in it, also with reverse=True: c is put after the elements of head that
\* are not to follow it
InsertSorted(head, c, key, reverse) ==
    LET Before(e) == IF reverse THEN ~StrLess(sort_key(e, key), sort_key(c, key))
                     ELSE ~StrLess(sort_key(c, key), sort_key(e, key))
        k == Cardinality({i \in 1..Len(head) : Before(head[i])})
    IN  SubSeq(head, 1, k) \o <<c>> \o SubSeq(head, k + 1, Len(head))

\* the elements of a sequence in the opposite order
Reverse(seq) == [i \in 1..Len(seq) |-> seq[Len(seq) + 1 - i]]

\* sorted(list(self._contacts), key=sort_key, reverse=reverse)
RECURSIVE sorted_reversed(_, _, _)
sorted_reversed(contacts, key, reverse) ==
    IF reverse THEN Reverse(sorted_reversed(contacts, key, FALSE))
    ELSE IF contacts = <<>> THEN <<>>
    ELSE InsertSorted(sorted_reversed(SubSeq(contacts, 1, Len(contacts) - 1), key, FALSE),
                      contacts[Len(contacts)], key, FALSE)

RECURSIVE sorted(_, _, _)
sorted(contacts, key, reverse) ==
    IF contacts = <<>> THEN <<>>
    ELSE InsertSorted(sorted(SubSeq(contacts, 1, Len(contacts) - 1), key, reverse),
                      contacts[Len(contacts)], key, reverse)

\* Rolodex.list_contacts: ret is the new list
list_contacts_in_place(contacts, sort_by, reverse) ==
    LET key == Join(Strip(Lower(sort_by)))
    IN  IF key \notin {"name", "email", "birth_date"} THEN Raise("sort_by", contacts)
        ELSE Return(sorted(contacts, key, reverse), sorted(contacts, key, reverse))

list_contacts(contacts, sort_by, reverse) ==
    LET key == Join(Strip(Lower(sort_by)))
    IN  IF key \notin {"name", "email", "birth_date"} THEN Raise("sort_by", contacts)
        ELSE Return(sorted(contacts, key, reverse), contacts)

\* `q in s` of two str values
Contains(s, q) == \E i \in 0..(Len(s) - Len(q)) : SubSeq(s, i + 1, i + Len(q)) = q

\* search_contacts, rolodex.py:122-123: the fields given that are attributes
valid_fields == {"name", "email", "address", "phone_num", "birth_date"}

fields_norm(fields) ==
    SelectSeq([i \in 1..Len(fields) |-> Join(Strip(Lower(fields[i])))],
              LAMBDA f : f \in valid_fields)

\* search_contacts, rolodex.py:127-139: str(val) of None would be "None"
matches_str_none(c, fields, q, exact) ==
    \E i \in 1..Len(fields) :
        LET val == c[fields[i]]
            str == Lower(IF val = None THEN <<"N", "o", "n", "e">> ELSE val)
        IN  IF exact THEN str = q ELSE Contains(str, q)

matches(c, fields, q, exact) ==
    \E i \in 1..Len(fields) :
        LET val == c[fields[i]]
        IN  /\ val # None
            /\ IF exact THEN Lower(val) = q ELSE Contains(Lower(val), q)

\* Rolodex.search_contacts: ret is the list it returns
search_contacts_fields_first(contacts, query, fields, exact) ==
    IF fields_norm(fields) = <<>> THEN Raise("fields", contacts)
    ELSE IF ~Truthy(query) THEN Return(<<>>, contacts)
    ELSE Return(SelectSeq(contacts,
                          LAMBDA c : matches(c, fields_norm(fields), Lower(Strip(query)), exact)),
                contacts)

search_contacts_narrowing(contacts, query, fields, exact) ==
    IF ~Truthy(query) THEN Return(<<>>, contacts)
    ELSE LET q == Lower(Strip(query))
             found == SelectSeq(contacts,
                                LAMBDA c : matches(c, fields_norm(fields), q, exact))
         IN  IF fields_norm(fields) = <<>> THEN Raise("fields", contacts)
             ELSE Return(found, found)

search_contacts(contacts, query, fields, exact) ==
    IF ~Truthy(query) THEN Return(<<>>, contacts)
    ELSE LET q == Lower(Strip(query))
         IN  IF fields_norm(fields) = <<>> THEN Raise("fields", contacts)
             ELSE Return(SelectSeq(contacts,
                                   LAMBDA c : matches(c, fields_norm(fields), q, exact)),
                         contacts)

\* Rolodex.get_by_email: the index of the contact it returns, 0 for None
get_by_email_unstripped(contacts, email) ==
    IF ~Truthy(email) THEN 0 ELSE FirstMatch(contacts, Lower(email))

get_by_email(contacts, email) ==
    IF ~Truthy(email) THEN 0 ELSE FirstMatch(contacts, Lower(Strip(email)))

\* Rolodex.view_contact
view_contact(contacts, email) == get_by_email(contacts, email)

\* `key in updates and updates[key] is not None`
Proposed(updates, key) == key \in DOMAIN updates /\ updates[key] # None

\* edit_contact, rolodex.py:186-194: the updates applied to the contact
ApplyUpdates_get(contact, updates, new_name, new_email) ==
    [name |-> new_name,
     email |-> new_email,
     address |-> Get(updates, "address"),
     phone_num |-> Get(updates, "phone_num"),
     birth_date |-> IF Proposed(updates, "birth_date")
                    THEN (IF Strip(updates["birth_date"]) = <<>> THEN None
                          ELSE Strip(updates["birth_date"]))
                    ELSE contact.birth_date]

ApplyUpdates(contact, updates, new_name, new_email) ==
    [name |-> new_name,
     email |-> new_email,
     address |-> IF "address" \in DOMAIN updates THEN updates["address"] ELSE contact.address,
     phone_num |-> IF "phone_num" \in DOMAIN updates THEN updates["phone_num"]
                   ELSE contact.phone_num,
     birth_date |-> IF Proposed(updates, "birth_date")
                    THEN (IF Strip(updates["birth_date"]) = <<>> THEN None
                          ELSE Strip(updates["birth_date"]))
                    ELSE contact.birth_date]

\* edit_contact, rolodex.py:181-184: the check of the birth date raises
BirthDateRaises(updates) ==
    /\ Proposed(updates, "birth_date")
    /\ Strip(updates["birth_date"]) # <<>>
    /\ ~is_valid_birth_date(Strip(updates["birth_date"]))

\* edit_contact, rolodex.py:158-184: a proposed value is held in a local
\* (new_name, new_email) while the checks run; the list is as it was
WhileChecking_applied(contacts, idx, new_name) == [contacts EXCEPT ![idx].name = new_name]

WhileChecking(contacts, idx, new_name) == contacts

\* Rolodex.edit_contact up to the save
edit_contact(contacts, current_email, updates) ==
    LET idx == get_by_email(contacts, current_email)
    IN  IF idx = 0 THEN Raise("not_found", contacts)
        ELSE LET contact == contacts[idx]
                 new_name == IF Proposed(updates, "name") THEN Strip(updates["name"])
                             ELSE contact.name
                 proposed == IF Proposed(updates, "email") THEN Strip(updates["email"])
                             ELSE <<>>
                 old_key == Lower(Strip(OrEmpty(contact.email)))
                 new_key == Lower(proposed)
                 new_email == IF Proposed(updates, "email") THEN proposed ELSE contact.email
             IN  IF Proposed(updates, "name") /\ new_name = <<>>
                 THEN Raise("name_empty", contacts)
                 ELSE LET held == WhileChecking(contacts, idx, new_name)
                 IN
                 IF Proposed(updates, "email") /\ proposed = <<>>
                 THEN Raise("email_empty", held)
                 ELSE IF Proposed(updates, "email") /\ ~is_valid_email(proposed)
                 THEN Raise("email_format", held)
                 ELSE IF /\ Proposed(updates, "email")
                         /\ new_key # old_key
                         /\ \E i \in 1..Len(contacts) : EmailKey(contacts[i]) = new_key
                 THEN Raise("duplicate", held)
                 ELSE IF BirthDateRaises(updates)
                 THEN Raise("birth_date", held)
                 ELSE LET edited == ApplyUpdates(contact, updates, new_name, new_email)
                      IN  Return(edited, [contacts EXCEPT ![idx] = edited])

\* list.pop(idx)
Pop_last(contacts, idx) == SubSeq(contacts, 1, Len(contacts) - 1)

Pop(contacts, idx) ==
    SubSeq(contacts, 1, idx - 1) \o SubSeq(contacts, idx + 1, Len(contacts))

\* Rolodex.delete_contact up to the save: ret is the boolean it returns
delete_contact_unconditional(contacts, email) ==
    IF ~Truthy(email) THEN Return(FALSE, contacts)
    ELSE LET idx == FirstMatch(contacts, Lower(Strip(email)))
         IN  IF idx = 0 THEN Return(TRUE, contacts)
             ELSE Return(TRUE, Pop(contacts, idx))

delete_contact(contacts, email) ==
    IF ~Truthy(email) THEN Return(FALSE, contacts)
    ELSE LET idx == FirstMatch(contacts, Lower(Strip(email)))
         IN  IF idx = 0 THEN Return(FALSE, contacts)
             ELSE Return(TRUE, Pop(contacts, idx))

----------------------------------------------------------------------------
(* The values the calls are made with                                      *)

s_n == <<"n">>
s_M == <<"M">>
s_n_pad == <<" ", "n", " ">>
s_blank == <<" ">>
s_p == <<"p">>
s_q == <<"q">>
e_a == <<"a", "@", "b", ".", "c">>
e_A == <<"A", "@", "b", ".", "c">>
e_a_pad == <<" ", "a", "@", "b", ".", "c", " ">>
e_A_pad == <<" ", "A", "@", "b", ".", "c", " ">>
e_x == <<"x", "@", "b", ".", "c">>
e_none == <<"z", "@", "b", ".", "c">>
e_bad == <<"a", "b">>
d_ok == <<"2", "0", "0", "0", "-", "0", "2", "-", "2", "9">>
d_bad == <<"2", "0", "0", "1", "-", "0", "2", "-", "2", "9">>

\* the sequences of at most n elements of S
SeqsUpTo(S, n) == UNION { [1..k -> S] : k \in 0..n }

\* the two Rolodex instances that may be open on the file
Rolodexes == {1, 2}

\* the contacts the calls are made with, as a Contact and as dicts
c_n_a == Contact(s_n, None, None, e_a, None)
d_n_a == [name |-> s_n, address |-> None, phone_num |-> None, email |-> e_a,
          birth_date |-> None]
d_M_x == [name |-> s_M, address |-> None, phone_num |-> s_p, email |-> e_x,
          birth_date |-> d_ok]

\* the content of the contacts file when the Rolodex is opened
InitFiles ==
    { Missing, Corrupt, NonList, Unreadable, ListFile(<<>>),
      ListFile(<< JDict(d_n_a), JScalar, JDict([name |-> s_M]), JDict([email |-> e_x]),
                  JDict([name |-> s_M, email |-> <<>>]), JDict(d_M_x) >>),
      ListFile(<< JDict(d_n_a), JDict([name |-> s_n, email |-> e_A]) >>),
      ListFile(<< JDict([name |-> s_n, email |-> e_a_pad]) >>) }

\* the arguments of add_contact
AddArgs ==
    { Inst(c_n_a),
      JDict([name |-> s_n_pad, email |-> e_A_pad]),
      JDict(d_M_x),
      JDict([email |-> e_a]),
      Inst(Contact(s_blank, None, None, e_x, None)),
      Inst(Contact(s_n, None, s_p, None, None)),
      JDict([name |-> s_n, email |-> s_blank]) }

\* the emails get_by_email and delete_contact are called with
LookupArgs == {e_A_pad, e_x, e_none, <<>>, None}

\* the current_email edit_contact is called with
EditEmails == {e_A_pad, e_x, e_none}

\* a run edits one kind of field
PoolNames == {"address", "email", "name", "birth_date"}

\* the keyword arguments of edit_contact in a run of each kind
EditArgs(kind) ==
    CASE kind = "address" ->
            { <<>>, [address |-> s_q], [name |-> None, address |-> None] }
      [] kind = "email" ->
            { [email |-> e_x], [email |-> e_A_pad], [email |-> e_bad], [email |-> s_blank] }
      [] kind = "name" ->
            { [name |-> s_M], [name |-> s_blank],
              [name |-> s_M, email |-> e_x, birth_date |-> d_bad],
              [name |-> s_M, email |-> e_bad] }
      [] OTHER ->
            { [birth_date |-> d_ok], [birth_date |-> s_blank], [birth_date |-> d_bad],
              [phone_num |-> s_p, birth_date |-> None] }

----------------------------------------------------------------------------
(* The Rolodex: one action per call                                        *)

\* the ways a save_contacts call may go: every step succeeds, or one raises
SaveWays(contacts) ==
    { [failAt |-> "none", failN |-> 0, cleanupFails |-> FALSE] } \cup
    { w \in [failAt : SaveSteps, failN : {0}, cleanupFails : {FALSE}] :
        failures < MaxFailures }

\* the add_contact calls are not recorded
NoAdds == [on |-> FALSE, seq |-> <<>>]

\* no stand-alone load_contacts call has returned
NotLoaded == [done |-> FALSE, raised |-> FALSE, value |-> <<>>, content |-> Missing]

\* Rolodex.__init__ of every instance on the file as it is found
Init ==
    /\ fs \in { [p \in Paths |-> IF p = file_path THEN f ELSE Missing] : f \in InitFiles }
    /\ rolodex = [r \in Rolodexes |-> load_contacts(fs[file_path])]
    /\ last = [op |-> "open", self |-> 1, arg |-> None, out |-> Return(None, <<>>),
               pre |-> <<>>, preFs |-> fs, saved |-> FALSE, pending |-> FALSE]
    /\ sv = SaveIdle
    /\ loaded = NotLoaded
    /\ failures = 0
    /\ pool \in PoolNames
    /\ adds = NoAdds

\* a call that raised, or returned without a save
NoSave(self, op, arg, out) ==
    /\ rolodex' = [rolodex EXCEPT ![self] = out.contacts]
    /\ fs' = fs
    /\ failures' = failures
    /\ last' = [op |-> op, self |-> self, arg |-> arg, out |-> out,
                pre |-> rolodex[self], preFs |-> fs, saved |-> FALSE,
                pending |-> last.pending]

\* rolodex.py:71-74, :186-198, :207-210: _contacts after self.save() has
\* returned; save_contacts raises nothing and nothing is undone
AfterSave_rollback(pre, out, failed) == IF failed THEN pre ELSE out.contacts

AfterSave(pre, out, failed) == out.contacts

\* a call that changed _contacts and ends with self.save()
WithSave(self, op, arg, out) ==
    \E w \in SaveWays(out.contacts) :
        LET s == save_contacts(fs, Instances(out.contacts), w.failAt, w.failN,
                               w.cleanupFails)
        IN  /\ rolodex' = [rolodex EXCEPT ![self] = AfterSave(rolodex[self], out, s.sv.failed)]
            /\ fs' = s.fs
            /\ failures' = IF s.sv.failed THEN failures + 1 ELSE failures
            /\ last' = [op |-> op, self |-> self, arg |-> arg, out |-> out,
                        pre |-> rolodex[self], preFs |-> fs, saved |-> ~s.sv.failed,
                        pending |-> s.sv.failed]

\* Rolodex.add_contact(contact_or_dict)
Add(self, arg) ==
    LET out == add_contact(rolodex[self], arg)
    IN  /\ out.err = "none" => Len(rolodex[self]) < MaxContacts
        /\ IF out.err = "none" THEN WithSave(self, "add", arg, out)
           ELSE NoSave(self, "add", arg, out)
        /\ adds' = IF adds.on /\ out.err = "none"
                    THEN [adds EXCEPT !.seq = Append(@, arg)]
                    ELSE adds
        /\ UNCHANGED <<sv, loaded, pool>>

\* Rolodex.edit_contact(current_email, **updates)
Edit(self, current_email, updates) ==
    LET out == edit_contact(rolodex[self], current_email, updates)
    IN  /\ IF out.err = "none"
           THEN WithSave(self, "edit", [email |-> current_email, updates |-> updates], out)
           ELSE NoSave(self, "edit", [email |-> current_email, updates |-> updates], out)
        /\ UNCHANGED <<sv, loaded, pool, adds>>

\* Rolodex.delete_contact(email)
Delete(self, email) ==
    LET out == delete_contact(rolodex[self], email)
    IN  /\ IF out.ret THEN WithSave(self, "delete", email, out)
           ELSE NoSave(self, "delete", email, out)
        /\ UNCHANGED <<sv, loaded, pool, adds>>

Next ==
    \/ \E arg \in AddArgs : Add(1, arg)
    \/ \E email \in EditEmails, updates \in EditArgs(pool) : Edit(1, email, updates)
    \/ \E email \in LookupArgs : Delete(1, email)

Spec == Init /\ [][Next]_vars

----------------------------------------------------------------------------
(* The calls that read: list_contacts and search_contacts                  *)

\* the sort_by list_contacts is called with
f_name == <<"n", "a", "m", "e">>
f_Name_pad == <<" ", "N", "a", "m", "e", " ">>
f_email == <<"e", "m", "a", "i", "l">>
f_birth_date == <<"b", "i", "r", "t", "h", "_", "d", "a", "t", "e">>
f_address == <<"a", "d", "d", "r", "e", "s", "s">>
f_phone == <<"p", "h", "o", "n", "e">>

SortArgs == {f_name, f_Name_pad, f_email, f_birth_date, f_address}

\* the queries and the fields search_contacts is called with
s_N_pad == <<" ", "N", " ">>
s_bc == <<"b", ".", "c">>

Queries == {s_n, s_N_pad, s_bc, s_blank, <<>>}

FieldArgs == { <<f_name, f_email>>, <<f_address>>, <<f_phone, f_birth_date, f_Name_pad>>,
               <<f_phone>> }

\* Rolodex.list_contacts(sort_by, reverse)
List(self, sort_by, reverse) ==
    /\ NoSave(self, "list", [sort_by |-> sort_by, reverse |-> reverse],
              list_contacts(rolodex[self], sort_by, reverse))
    /\ UNCHANGED <<sv, loaded, pool, adds>>

\* Rolodex.search_contacts(query, fields, exact)
Search(self, query, fields, exact) ==
    /\ NoSave(self, "search", [query |-> query, fields |-> fields, exact |-> exact],
              search_contacts(rolodex[self], query, fields, exact))
    /\ UNCHANGED <<sv, loaded, pool, adds>>

\* Rolodex.get_by_email(email): ret is the place of the contact, 0 for None
GetByEmail(self, email) ==
    /\ NoSave(self, "get", email,
              Return(get_by_email(rolodex[self], email), rolodex[self]))
    /\ UNCHANGED <<sv, loaded, pool, adds>>

\* Rolodex.view_contact(email)
View(self, email) ==
    /\ NoSave(self, "view", email,
              Return(view_contact(rolodex[self], email), rolodex[self]))
    /\ UNCHANGED <<sv, loaded, pool, adds>>

\* the contacts in the file of a Rolodex that is read
QueryItems ==
    { JDict(d_n_a), JDict(d_M_x),
      JDict([name |-> <<"N">>, email |-> e_A, address |-> s_N_pad]),
      JDict([name |-> s_n, email |-> e_none, address |-> s_q, birth_date |-> d_bad]) }

\* a Rolodex opened on a file of contacts
InitQuery ==
    /\ fs \in { [p \in Paths |-> IF p = file_path THEN ListFile(items) ELSE Missing] :
                    items \in SeqsUpTo(QueryItems, MaxListed) }
    /\ rolodex = [r \in Rolodexes |-> load_contacts(fs[file_path])]
    /\ last = [op |-> "open", self |-> 1, arg |-> None, out |-> Return(None, <<>>),
               pre |-> <<>>, preFs |-> fs, saved |-> FALSE, pending |-> FALSE]
    /\ sv = SaveIdle
    /\ loaded = NotLoaded
    /\ failures = 0
    /\ pool = "address"
    /\ adds = NoAdds

NextQuery ==
    \/ \E sort_by \in SortArgs, reverse \in BOOLEAN : List(1, sort_by, reverse)
    \/ \E query \in Queries, fields \in FieldArgs, exact \in BOOLEAN :
            Search(1, query, fields, exact)
    \/ \E email \in LookupArgs : GetByEmail(1, email)
    \/ \E email \in LookupArgs : View(1, email)

SpecQuery == InitQuery /\ [][NextQuery]_vars

\* more values edit_contact is called with
e_two_ats == <<"a", "@", "b", ".", "c", "@", "x">>
e_no_dot == <<"a", "@", "b">>
d_ok_pad == <<" ", "2", "0", "0", "0", "-", "0", "2", "-", "2", "9", " ">>
d_short == <<"2", "0", "0", "0", "-", "2", "-", "9">>

\* a run of edits alone edits birth dates, emails, or fields of every kind
EditPools == {"dates", "shape", "frame"}

EditMore(kind) ==
    CASE kind = "dates" ->
            { [birth_date |-> d_ok_pad], [birth_date |-> s_blank], [birth_date |-> d_bad],
              [birth_date |-> d_short], [birth_date |-> None, address |-> s_q],
              [name |-> s_blank, birth_date |-> d_ok_pad] }
      [] kind = "shape" ->
            { [email |-> e_two_ats], [email |-> e_no_dot], [email |-> e_bad],
              [email |-> e_x], [email |-> e_a_pad] }
      [] OTHER ->
            { <<>>, [address |-> s_q], [name |-> s_n_pad, address |-> None],
              [phone_num |-> None, email |-> e_A_pad], [nickname |-> s_q],
              [name |-> None, birth_date |-> s_blank] }

\* the contacts in the file of a Rolodex that is edited
EditItems ==
    { JDict(d_M_x),
      JDict([name |-> s_n_pad, email |-> e_A, address |-> s_q, birth_date |-> d_ok]) }

\* a Rolodex opened on a file of contacts; the saves of its edits do not
\* fail (failures is at its bound from the start)
InitEdit ==
    /\ fs \in { [p \in Paths |-> IF p = file_path THEN ListFile(items) ELSE Missing] :
                    items \in SeqsUpTo(EditItems, MaxEdited) }
    /\ rolodex = [r \in Rolodexes |-> load_contacts(fs[file_path])]
    /\ last = [op |-> "open", self |-> 1, arg |-> None, out |-> Return(None, <<>>),
               pre |-> <<>>, preFs |-> fs, saved |-> FALSE, pending |-> FALSE]
    /\ sv = SaveIdle
    /\ loaded = NotLoaded
    /\ failures = MaxFailures
    /\ pool \in EditPools
    /\ adds = NoAdds

NextEdit ==
    \E email \in EditEmails, updates \in EditMore(pool) :
        Edit(1, email, updates)

SpecEdit == InitEdit /\ [][NextEdit]_vars

\* the file two Rolodex instances are opened on, and their calls
SharedFiles == { Missing, ListFile(<< JDict(d_n_a) >>) }

SharedAdds == { Inst(c_n_a), JDict(d_M_x) }

SharedEmails == { e_A_pad, e_x }

SharedUpdates == { [address |-> s_q] }

\* rx and rx2 opened on the same file; each call runs to its end, save
\* included, before the next call of either instance starts; the saves do
\* not fail (failures is at its bound from the start)
InitShared ==
    /\ fs \in { [p \in Paths |-> IF p = file_path THEN f ELSE Missing] :
                    f \in SharedFiles }
    /\ rolodex = [r \in Rolodexes |-> load_contacts(fs[file_path])]
    /\ last = [op |-> "open", self |-> 1, arg |-> None, out |-> Return(None, <<>>),
               pre |-> <<>>, preFs |-> fs, saved |-> FALSE, pending |-> FALSE]
    /\ sv = SaveIdle
    /\ loaded = NotLoaded
    /\ failures = MaxFailures
    /\ pool = "address"
    /\ adds = NoAdds

NextShared ==
    \E self \in Rolodexes :
        \/ \E arg \in SharedAdds : Add(self, arg)
        \/ \E email \in SharedEmails, updates \in SharedUpdates :
                Edit(self, email, updates)
        \/ \E email \in SharedEmails : Delete(self, email)

SpecShared == InitShared /\ [][NextShared]_vars

\* the arguments of add_contact in a run that only adds and lists
AddsArgs == AddArgs \cup {Inst(Contact(s_n, s_q, None, e_none, None))}

\* a Rolodex opened where there are no contacts; its adds are recorded
InitAdds ==
    /\ fs \in { [p \in Paths |-> IF p = file_path THEN f ELSE Missing] :
                    f \in {Missing, Corrupt, NonList, Unreadable, ListFile(<<>>)} }
    /\ rolodex = [r \in Rolodexes |-> load_contacts(fs[file_path])]
    /\ last = [op |-> "open", self |-> 1, arg |-> None, out |-> Return(None, <<>>),
               pre |-> <<>>, preFs |-> fs, saved |-> FALSE, pending |-> FALSE]
    /\ sv = SaveIdle
    /\ loaded = NotLoaded
    /\ failures = 0
    /\ pool = "address"
    /\ adds = [on |-> TRUE, seq |-> <<>>]

NextAdds ==
    \/ \E arg \in AddsArgs : Add(1, arg)
    \/ \E sort_by \in SortArgs, reverse \in BOOLEAN : List(1, sort_by, reverse)

SpecAdds == InitAdds /\ [][NextAdds]_vars

----------------------------------------------------------------------------
(* The store alone: load_contacts on a file, and one save_contacts call    *)
(* taken step by step, where the process may stop between two steps        *)

\* the items of the list in a file
FileItems ==
    { JDict(d_n_a), JDict(d_M_x), JScalar,
      JDict([name |-> s_M, phone_num |-> s_p]),
      JDict([email |-> e_x]),
      JDict([name |-> s_n, email |-> <<>>]),
      JDict([name |-> <<>>, email |-> e_a]),
      JDict([name |-> s_blank, email |-> e_a]),
      JDict([name |-> s_n, email |-> s_blank]) }

\* the files load_contacts is run on
LoadFiles ==
    {Missing, Unreadable, Corrupt, NonList, PartialFile(<<JDict(d_n_a)>>)}
        \cup { ListFile(items) : items \in SeqsUpTo(FileItems, MaxFileItems) }

\* the elements of the list save_contacts is called with
SaveItems ==
    { Inst(c_n_a), JDict(d_M_x), Inst(Contact(s_blank, s_q, None, e_A_pad, d_bad)),
      Inst(Contact(s_M, None, s_p, None, None)) }

SaveArgs == SeqsUpTo(SaveItems, MaxSaveItems)

\* the files a save_contacts call finds at its destination
SaveFiles == {Missing, Corrupt, ListFile(<<>>), ListFile(<<JDict(d_n_a), JScalar>>)}

StoreRest ==
    /\ last = [op |-> "none", self |-> 1, arg |-> None, out |-> Return(None, <<>>),
               pre |-> <<>>, preFs |-> fs, saved |-> FALSE, pending |-> FALSE]
    /\ sv = SaveIdle
    /\ loaded = NotLoaded
    /\ failures = 0
    /\ pool = "address"
    /\ adds = NoAdds

\* a file, and the Rolodex opened on it
InitLoad ==
    /\ fs \in { [p \in Paths |-> IF p = file_path THEN f ELSE Missing] : f \in LoadFiles }
    /\ rolodex = [r \in Rolodexes |-> load_contacts(fs[file_path])]
    /\ StoreRest

\* the temporary file may be there already, left by a call that was stopped
InitStore ==
    /\ fs \in { [p \in Paths |-> IF p = file_path THEN f ELSE t] :
                    f \in SaveFiles, t \in {Missing, Corrupt} }
    /\ rolodex = [r \in Rolodexes |-> load_contacts(fs[file_path])]
    /\ StoreRest

StoreRunning == sv.pc \in SaveSteps \cup {"except"}

\* load_contacts(file_path)
Load ==
    /\ ~StoreRunning
    /\ loaded' = [done |-> TRUE, raised |-> load_result(fs[file_path]).raised,
                  value |-> load_result(fs[file_path]).value, content |-> fs[file_path]]
    /\ UNCHANGED <<fs, rolodex, last, sv, failures, pool, adds>>

\* save_contacts(file_path, contacts) is called: with a list of the caller,
\* or with the list load_contacts returned
SaveCall ==
    /\ sv.pc = "idle"
    /\ \E contacts \in SaveArgs \cup {Instances(loaded.value)} :
            sv' = SaveStart(fs, contacts)
    /\ loaded' = NotLoaded
    /\ UNCHANGED <<fs, rolodex, last, failures, pool, adds>>

\* the next step of the call; it raises or not
SaveAdvance ==
    /\ StoreRunning
    /\ \E fail \in BOOLEAN :
            /\ sv' = SaveStep(sv, fs, fail).sv
            /\ fs' = SaveStep(sv, fs, fail).fs
    /\ UNCHANGED <<rolodex, last, loaded, failures, pool, adds>>

\* the process stops in the middle of the call
Crash ==
    /\ StoreRunning
    /\ sv' = [sv EXCEPT !.pc = "crashed"]
    /\ UNCHANGED <<fs, rolodex, last, loaded, failures, pool, adds>>

NextLoad == Load

SpecLoad == InitLoad /\ [][NextLoad]_vars

NextStore == Load \/ SaveCall \/ SaveAdvance \/ Crash

SpecStore == InitStore /\ [][NextStore]_vars

\* the files that are loaded and saved back
ReloadFiles ==
    {Missing, Unreadable, Corrupt, NonList, PartialFile(<<JDict(d_n_a)>>)}
        \cup { ListFile(items) : items \in SeqsUpTo(FileItems, MaxResaved) }

InitReload ==
    /\ fs \in { [p \in Paths |-> IF p = file_path THEN f ELSE Missing] : f \in ReloadFiles }
    /\ rolodex = [r \in Rolodexes |-> load_contacts(fs[file_path])]
    /\ StoreRest

\* save_contacts(file_path, contacts) with the list load_contacts returned
SaveLoaded ==
    /\ sv.pc = "idle"
    /\ loaded.done
    /\ sv' = SaveStart(fs, Instances(loaded.value))
    /\ loaded' = NotLoaded
    /\ UNCHANGED <<fs, rolodex, last, failures, pool, adds>>

NextReload == Load \/ SaveLoaded \/ SaveAdvance

SpecReload == InitReload /\ [][NextReload]_vars

----------------------------------------------------------------------------
(* The properties                                                          *)

\* an email as emails are compared: trimmed, in lower case
Normalized(email) == Lower(Strip(OrEmpty(email)))

\* the last call was an add, edit or delete that changed _contacts and
\* returned its success result
Mutated ==
    \/ last.op \in {"add", "edit"} /\ last.out.err = "none"
    \/ last.op = "delete" /\ last.out.ret

\* the contact add_contact was called with
AddedContact == IF last.arg.kind = "Contact" THEN last.arg.c ELSE from_dict(last.arg.d)

\* C1: no two contacts of a Rolodex have emails that are equal after
\* trimming and lowercasing, whatever file it was opened on and whatever
\* calls were made.
C1_UniqueEmails ==
    \A i, j \in 1..Len(rolodex[1]) :
        i # j => Normalized(rolodex[1][i].email) # Normalized(rolodex[1][j].email)

\* C2: an add whose name and email are not empty and whose email equals an
\* existing contact's email, both trimmed and lowercased, raises the
\* duplicate error and leaves the number of contacts as it was.
C2_AddDuplicateRejected ==
    ( /\ last.op = "add"
      /\ last.out.why \notin {"name_required", "required"}
      /\ \E i \in 1..Len(last.pre) :
            Normalized(last.pre[i].email) = Normalized(AddedContact.email) )
    => /\ last.out.err = "ValueError" /\ last.out.why = "duplicate"
       /\ Len(rolodex[last.self]) = Len(last.pre)

\* C3: after a successful add, edit or delete whose save did not fail, a
\* Rolodex opened on the file holds the contacts of the first, in the same
\* order and equal in every field.
C3_ReopenEqualsMemory ==
    (Mutated /\ last.saved) => load_contacts(fs[file_path]) = rolodex[last.self]

C3_Witness ==
    /\ last.op = "edit" /\ Mutated /\ last.saved
    /\ Len(rolodex[1]) = 2
    /\ rolodex[1] # last.pre
    /\ \E i \in 1..2 : rolodex[1][i].birth_date # None

\* C4: at every step of a save_contacts call, and when the process stops
\* there, the destination holds its complete previous content or the
\* complete serialization of the list given, never a part of one.
C4_CrashSafe ==
    sv.pc # "idle" =>
        \/ fs[file_path] = sv.old
        \/ fs[file_path] = ListFile(SaveData(sv.contacts))

C4_Witness ==
    /\ sv.pc = "crashed"
    /\ Len(sv.contacts) = 2
    /\ fs[tmp_path(file_path)].kind = "partial"
    /\ Len(fs[tmp_path(file_path)].items) = 1
    /\ fs[file_path] = sv.old

\* C5: when a step of save_contacts raises, the call still returns to its
\* caller (the step leads to the except block, the except block to the
\* return), and the destination is as it was before the call.
C5_FailedSaveLeavesFile ==
    /\ sv.pc \in SaveSteps => SaveStep(sv, fs, TRUE).sv.pc = "except"
    /\ sv.pc = "except" => \A fail \in BOOLEAN : SaveStep(sv, fs, fail).sv.pc = "return"
    /\ (sv.pc = "return" /\ sv.failed) => fs[file_path] = sv.old

C5_Witness ==
    /\ sv.pc = "return" /\ sv.failed
    /\ sv.old.kind = "list" /\ sv.old.items # <<>>
    /\ sv.contacts # <<>>
    /\ ~Exists(fs, tmp_path(file_path))

\* C6, as claimed: when the save of a successful add, edit or delete fails,
\* the call returns its result, _contacts keeps the change and the file its
\* content; the contacts in memory and in the file are different for as
\* long as the latest save has failed; after a save that succeeds the file
\* holds the contacts in memory.
C6_InconsistentUntilSaved ==
    /\ (Mutated /\ ~last.saved) =>
            /\ rolodex[last.self] = last.out.contacts
            /\ fs[file_path] = last.preFs[file_path]
    /\ last.pending => load_contacts(fs[file_path]) # rolodex[last.self]
    /\ (Mutated /\ last.saved) => load_contacts(fs[file_path]) = rolodex[last.self]

\* C6, amended: when the save of a successful add, edit or delete fails,
\* the call returns its result, _contacts keeps the change and the file its
\* content; a call that saves nothing leaves the file as it is; after the
\* first save that fails, the contacts in memory and in the file are
\* different exactly when the call changed the list; after a save that
\* succeeds the file holds the contacts in memory.
C6_StaleUntilSaved ==
    /\ (Mutated /\ ~last.saved) =>
            /\ rolodex[last.self] = last.out.contacts
            /\ fs[file_path] = last.preFs[file_path]
    /\ ~last.saved => fs[file_path] = last.preFs[file_path]
    /\ (Mutated /\ ~last.saved /\ failures = 1) =>
            ( load_contacts(fs[file_path]) # rolodex[last.self]
                <=> last.out.contacts # last.pre )
    /\ (Mutated /\ last.saved) => load_contacts(fs[file_path]) = rolodex[last.self]

C6_Witness ==
    /\ last.op = "add" /\ Mutated /\ ~last.saved
    /\ Len(last.pre) = 1 /\ Len(rolodex[1]) = 2
    /\ load_contacts(fs[file_path]) = last.pre

\* C7: save_contacts of a list of Contact instances and dicts, each with a
\* name and an email that are not empty, followed by load_contacts returns
\* as many contacts in the same order, each equal to the one saved in all
\* five fields.
OriginalField(item, key) == IF item.kind = "Contact" THEN item.c[key] ELSE Get(item.d, key)

C7_RoundTrip ==
    ( /\ loaded.done /\ sv.pc = "return" /\ ~sv.failed
      /\ \A i \in 1..Len(sv.contacts) :
            /\ sv.contacts[i].kind \in {"Contact", "dict"}
            /\ OriginalField(sv.contacts[i], "name") \notin {None, <<>>}
            /\ OriginalField(sv.contacts[i], "email") \notin {None, <<>>} )
    => /\ ~loaded.raised
       /\ Len(loaded.value) = Len(sv.contacts)
       /\ \A i \in 1..Len(sv.contacts) : \A key \in Keys :
            loaded.value[i][key] = OriginalField(sv.contacts[i], key)

C7_Witness ==
    /\ loaded.done /\ sv.pc = "return" /\ ~sv.failed
    /\ sv.contacts = <<JDict(d_M_x), Inst(Contact(s_blank, s_q, None, e_A_pad, d_bad))>>
    /\ Len(loaded.value) = 2

\* C8: from a file whose root is a list, load_contacts returns the dicts
\* with a name and an email that are not empty, decoded, in the order of
\* the file; every other element is skipped and no valid one is dropped.
ValidItem(item) ==
    /\ item.kind = "dict"
    /\ Get(item.d, "name") \notin {None, <<>>}
    /\ Get(item.d, "email") \notin {None, <<>>}

ValidBefore(items, i) == Cardinality({j \in 1..i : ValidItem(items[j])})

C8_LoadKeepsValidItems ==
    (loaded.done /\ loaded.content.kind = "list") =>
        LET items == loaded.content.items
        IN  /\ ~loaded.raised
            /\ Len(loaded.value) = ValidBefore(items, Len(items))
            /\ \A i \in 1..Len(items) :
                    ValidItem(items[i]) =>
                        \A key \in Keys :
                            loaded.value[ValidBefore(items, i)][key] = Get(items[i].d, key)

C8_Witness ==
    /\ loaded.done
    /\ loaded.content = ListFile(<<JDict(d_M_x), JScalar, JDict(d_n_a)>>)
    /\ Len(loaded.value) = 2

\* C9: load_contacts raises nothing; it returns the empty list when there
\* is no file, when the file cannot be read or decoded and when the root is
\* not a list, and a Rolodex opened on such a file has no contacts.
C9_LoadNeverRaises ==
    /\ loaded.done => ~loaded.raised
    /\ (loaded.done /\ loaded.content.kind # "list") => loaded.value = <<>>
    /\ fs[file_path].kind # "list" =>
            /\ ~load_result(fs[file_path]).raised
            /\ rolodex[1] = <<>>

C9_Witness == loaded.done /\ loaded.content = Corrupt /\ rolodex[1] = <<>>

\* C10: an edit that raises (no contact found, a value rejected, a
\* duplicate email) leaves every contact in memory and the file as they
\* were, also when the updates hold valid values for fields checked before
\* the one rejected.
C10_EditAllOrNothing ==
    (last.op = "edit" /\ last.out.err # "none") =>
        /\ rolodex[last.self] = last.pre
        /\ fs = last.preFs

C10_Witness ==
    /\ last.op = "edit" /\ last.out.why = "birth_date"
    /\ Proposed(last.arg.updates, "name")
    /\ Proposed(last.arg.updates, "email")
    /\ \E i \in 1..Len(last.pre) :
            /\ Normalized(last.pre[i].email) = Normalized(last.arg.email)
            /\ last.pre[i].name # Strip(last.arg.updates["name"])

\* the place in the list of the contact the last edit was made on
EditedIdx == get_by_email(last.pre, last.arg.email)

\* C11: after a successful edit that changes the email (old and new differ
\* after trimming and lowercasing), get_by_email of the old email returns
\* None and get_by_email of the new email returns the edited contact; after
\* a successful edit of the address alone, get_by_email of the email
\* returns the edited contact.
C11_EditKeepsLookup ==
    (last.op = "edit" /\ last.out.err = "none") =>
        LET old == last.pre[EditedIdx].email
            updates == last.arg.updates
            now == rolodex[last.self]
        IN  /\ ( /\ Proposed(updates, "email")
                 /\ Normalized(updates["email"]) # Normalized(old) ) =>
                    /\ get_by_email(now, old) = 0
                    /\ get_by_email(now, updates["email"]) = EditedIdx
                    /\ now[EditedIdx] = last.out.ret
            /\ DOMAIN updates = {"address"} =>
                    /\ get_by_email(now, old) = EditedIdx
                    /\ now[EditedIdx] = last.out.ret
                    /\ now[EditedIdx].email = old

\* C12: an edit whose proposed email, trimmed and lowercased, is the email
\* of a contact other than the one edited raises the duplicate error; an
\* edit whose proposed email differs from the edited contact's own email in
\* letter case or surrounding whitespace only does not, and succeeds.  (The
\* name given, if any, is not blank, the email has the shape of an email
\* and the birth date is a date: the checks of those raise first.)
C12_EditDuplicate ==
    ( /\ last.op = "edit" /\ EditedIdx # 0
      /\ Proposed(last.arg.updates, "email")
      /\ is_valid_email(Strip(last.arg.updates["email"]))
      /\ Proposed(last.arg.updates, "name") => Strip(last.arg.updates["name"]) # <<>>
      /\ ~BirthDateRaises(last.arg.updates) )
    => LET key == Normalized(last.arg.updates["email"])
       IN  /\ (\E j \in 1..Len(last.pre) :
                    j # EditedIdx /\ Normalized(last.pre[j].email) = key)
                => last.out.err = "ValueError" /\ last.out.why = "duplicate"
           /\ key = Normalized(last.pre[EditedIdx].email) => last.out.err = "none"

\* C13: an add whose name or email is absent, empty or blank raises
\* ValueError, and the contacts in memory and every file are as they were.
C13_AddRequiresNameAndEmail ==
    ( /\ last.op = "add"
      /\ LET given(key) == IF last.arg.kind = "Contact" THEN last.arg.c[key]
                           ELSE Get(last.arg.d, key)
         IN  \/ Strip(OrEmpty(given("name"))) = <<>>
             \/ Strip(OrEmpty(given("email"))) = <<>> )
    => /\ last.out.err = "ValueError"
       /\ last.out.why \in {"name_required", "required"}
       /\ rolodex[last.self] = last.pre
       /\ fs = last.preFs

C13_Witness ==
    /\ last.op = "add" /\ last.out.err = "ValueError"
    /\ last.arg = Inst(Contact(s_blank, None, None, e_x, None))
    /\ last.pre # <<>>
    /\ \A i \in 1..Len(last.pre) : Normalized(last.pre[i].email) # e_x

\* C14: an add that returns puts the contact it returns at the end of the
\* list, its name and email the given ones trimmed (letter case kept), its
\* other fields as given; the list is one longer and the contacts before
\* it are as they were, in their order.
C14_AddAppends ==
    (last.op = "add" /\ last.out.err = "none") =>
        LET now == rolodex[last.self]
            new == last.out.ret
        IN  /\ Len(now) = Len(last.pre) + 1
            /\ now[Len(now)] = new
            /\ \A i \in 1..Len(last.pre) : now[i] = last.pre[i]
            /\ new.name = Strip(AddedContact.name)
            /\ new.email = Strip(AddedContact.email)
            /\ \A key \in Keys \ {"name", "email"} : new[key] = AddedContact[key]

C14_Witness ==
    /\ last.op = "add" /\ last.out.err = "none"
    /\ last.arg = JDict([name |-> s_n_pad, email |-> e_A_pad])
    /\ last.out.ret.email = e_A /\ last.out.ret.name = s_n
    /\ Len(last.pre) = 1 /\ Len(rolodex[1]) = 2

\* the places in the list before the last call whose email is the one the
\* call was made with, trimmed and lowercased
Matches == { i \in 1..Len(last.pre) : Normalized(last.pre[i].email) = Normalized(last.arg) }

\* no two contacts in the list before the last call have the same email
UniqueBefore ==
    \A i, j \in 1..Len(last.pre) :
        i # j => Normalized(last.pre[i].email) # Normalized(last.pre[j].email)

\* C16: a delete with an empty email, or with an email no contact has,
\* returns False, raises nothing, and leaves the contacts in memory and
\* every file as they were.
C16_DeleteAbsent ==
    (last.op = "delete" /\ (~Truthy(last.arg) \/ Matches = {})) =>
        /\ last.out.err = "none"
        /\ last.out.ret = FALSE
        /\ rolodex[last.self] = last.pre
        /\ fs = last.preFs

C16_Witness ==
    /\ last.op = "delete" /\ last.arg = e_none
    /\ Len(last.pre) = 2 /\ last.out.ret = FALSE
    /\ last.pending

\* what a delete of an email some contact has does to the list in memory:
\* it returns True and removes the first contact with that email, the
\* others stay in their order; with unique emails get_by_email of the
\* email then returns None
DeleteInMemory ==
    LET now == rolodex[last.self]
        first == CHOOSE i \in Matches : \A j \in Matches : i <= j
    IN  /\ last.out.err = "none" /\ last.out.ret = TRUE
        /\ Len(now) = Len(last.pre) - 1
        /\ \A i \in 1..Len(now) : now[i] = last.pre[IF i < first THEN i ELSE i + 1]
        /\ UniqueBefore => get_by_email(now, last.arg) = 0

\* C17, as claimed: a delete of an email some contact has removes the
\* first such contact and no other, returns True and persists the list, so
\* that a Rolodex opened on the file afterwards holds the list and, with
\* unique emails, get_by_email of the email returns None there too.
C17_DeletePersists ==
    (last.op = "delete" /\ Truthy(last.arg) /\ Matches # {}) =>
        /\ DeleteInMemory
        /\ load_contacts(fs[file_path]) = rolodex[last.self]
        /\ UniqueBefore => get_by_email(load_contacts(fs[file_path]), last.arg) = 0

\* C17, amended: the same in memory; the file holds the list, and a
\* Rolodex opened on it afterwards does not find the email, when the save
\* of the delete did not fail.
C17_DeleteFirstMatch ==
    (last.op = "delete" /\ Truthy(last.arg) /\ Matches # {}) =>
        /\ DeleteInMemory
        /\ last.saved =>
            /\ load_contacts(fs[file_path]) = rolodex[last.self]
            /\ UniqueBefore => get_by_email(load_contacts(fs[file_path]), last.arg) = 0

C17_Witness ==
    /\ last.op = "delete" /\ last.out.ret = TRUE /\ last.saved
    /\ Len(last.pre) = 2 /\ Matches = {1}
    /\ load_contacts(fs[file_path]) = <<last.pre[2]>>

\* the ways to list n elements each once: place -> place in the original
Orderings(n) == { p \in [1..n -> 1..n] : \A i, j \in 1..n : i # j => p[i] # p[j] }

\* the contact add_contact is to keep for an argument: the one given, its
\* name and email trimmed
Expected(arg) ==
    LET c == IF arg.kind = "Contact" THEN arg.c ELSE from_dict(arg.d)
    IN  [c EXCEPT !.name = Strip(c.name), !.email = Strip(c.email)]

AddedRecords == [i \in 1..Len(adds.seq) |-> Expected(adds.seq[i])]

\* the contacts added before the last call
AddedBefore ==
    IF last.op = "add" /\ last.out.err = "none"
    THEN SubSeq(AddedRecords, 1, Len(AddedRecords) - 1)
    ELSE AddedRecords

\* C15: in a Rolodex opened empty, an add of a name and an email that are
\* not blank, the email not among those added (trimmed, lowercased),
\* returns; the list in memory is the contacts added in the order of the
\* adds; list_contacts returns each of them once and no other, and in the
\* order of the adds when the sort keys are all equal.
C15_AddThenList ==
    adds.on =>
        /\ rolodex[1] = AddedRecords
        /\ ( /\ last.op = "add" /\ last.arg.kind = "Contact"
             /\ Strip(OrEmpty(last.arg.c.name)) # <<>>
             /\ Strip(OrEmpty(last.arg.c.email)) # <<>>
             /\ \A i \in 1..Len(AddedBefore) :
                    Normalized(AddedBefore[i].email) # Normalized(last.arg.c.email) )
            => last.out.err = "none"
        /\ (last.op = "list" /\ last.out.err = "none") =>
            LET ret == last.out.ret
                key == Join(Strip(Lower(last.arg.sort_by)))
            IN  /\ Len(ret) = Len(AddedRecords)
                /\ \E p \in Orderings(Len(ret)) :
                        \A i \in 1..Len(ret) : ret[i] = AddedRecords[p[i]]
                /\ (\A i, j \in 1..Len(ret) :
                        Lower(OrEmpty(ret[i][key])) = Lower(OrEmpty(ret[j][key])))
                    => ret = AddedRecords

C15_Witness ==
    /\ adds.on /\ last.op = "list" /\ last.out.err = "none"
    /\ Len(adds.seq) = 2
    /\ adds.seq[2] = JDict([name |-> s_n_pad, email |-> e_A_pad])
    /\ last.out.ret = <<AddedRecords[2], AddedRecords[1]>>

\* the field a list_contacts call sorts by, and the key of a contact: the
\* value in lower case, the empty string for None
ListedBy == Join(last.arg.sort_by)

KeyOf(c) == Lower(OrEmpty(c[ListedBy]))

\* ret lists the contacts of pre, each once, in ascending (descending) order
\* of their keys, those of equal key in their order in pre
OrderedStable(ret, pre, descending) ==
    /\ Len(ret) = Len(pre)
    /\ \E p \in Orderings(Len(pre)) :
            /\ \A i \in 1..Len(pre) : ret[i] = pre[p[i]]
            /\ \A i \in 1..(Len(pre) - 1) :
                    /\ IF descending THEN ~StrLess(KeyOf(ret[i]), KeyOf(ret[i + 1]))
                       ELSE ~StrLess(KeyOf(ret[i + 1]), KeyOf(ret[i]))
                    /\ KeyOf(ret[i]) = KeyOf(ret[i + 1]) => p[i] < p[i + 1]

ListedValid == last.op = "list" /\ last.arg.sort_by \in {f_name, f_email, f_birth_date}

\* C18: list_contacts by name, email or birth_date with reverse=False
\* returns the contacts, each once, in ascending order of the lowercased
\* value, a contact without the value before all that have one, contacts
\* of equal key in their order in the list; the list in memory is as it
\* was.
C18_ListSortedStable ==
    (ListedValid /\ ~last.arg.reverse) =>
        /\ last.out.err = "none"
        /\ OrderedStable(last.out.ret, last.pre, FALSE)
        /\ \A i, j \in 1..Len(last.out.ret) :
                ( /\ ~Truthy(last.out.ret[i][ListedBy])
                  /\ Truthy(last.out.ret[j][ListedBy]) ) => i < j
        /\ rolodex[last.self] = last.pre

C18_Witness ==
    /\ ListedValid /\ ~last.arg.reverse /\ ListedBy = "name"
    /\ Len(last.pre) = 3
    /\ last.pre[1].name = s_n /\ last.pre[2].name = <<"N">> /\ last.pre[3].name = s_M
    /\ last.out.ret = <<last.pre[3], last.pre[1], last.pre[2]>>

\* C19, as claimed: list_contacts with reverse=True returns the list that
\* reverse=False returns, in the opposite order, also when contacts have
\* the same key.
C19_ReverseIsReversal ==
    (ListedValid /\ last.arg.reverse) =>
        last.out.ret = Reverse(list_contacts(last.pre, last.arg.sort_by, FALSE).ret)

\* C19, amended: list_contacts with reverse=True returns the contacts in
\* descending order of their keys, those of equal key in their order in
\* the list (as reverse=False has them); it is the list reverse=False
\* returns in the opposite order when no two contacts have the same key.
C19_ReverseDescendingStable ==
    (ListedValid /\ last.arg.reverse) =>
        /\ last.out.err = "none"
        /\ OrderedStable(last.out.ret, last.pre, TRUE)
        /\ (\A i, j \in 1..Len(last.pre) : i # j => KeyOf(last.pre[i]) # KeyOf(last.pre[j]))
            => last.out.ret = Reverse(list_contacts(last.pre, last.arg.sort_by, FALSE).ret)

C19_Witness ==
    /\ ListedValid /\ last.arg.reverse /\ ListedBy = "name"
    /\ Len(last.pre) = 3
    /\ last.pre[1].name = s_M /\ last.pre[2].name = s_n /\ last.pre[3].name = <<"N">>
    /\ last.out.ret = <<last.pre[2], last.pre[3], last.pre[1]>>

\* the attributes a search_contacts call looks at
Selected ==
    { Join(Strip(Lower(last.arg.fields[i]))) : i \in 1..Len(last.arg.fields) } \cap Keys

\* a contact has, in an attribute looked at, a value that is the query q
\* (exact) or has it as a part, letter case apart
Matching(c, q) ==
    \E f \in Selected :
        /\ c[f] # None
        /\ IF last.arg.exact THEN Lower(c[f]) = q ELSE Contains(Lower(c[f]), q)

\* the last call returned the contacts of the list that match q, in their
\* order, and no other
Found(q) ==
    LET hits == { i \in 1..Len(last.pre) : Matching(last.pre[i], q) }
    IN  /\ last.out.err = "none"
        /\ Len(last.out.ret) = Cardinality(hits)
        /\ \A i \in hits : last.out.ret[Cardinality({j \in hits : j <= i})] = last.pre[i]

Searched == last.op = "search" /\ Truthy(last.arg.query) /\ Selected # {}

\* C20, as claimed: search_contacts with a query that is not empty and an
\* attribute to look at returns, in their order, the contacts with a value
\* that is the query (exact) or has the query as a part, letter case apart.
C20_SearchByQuery == Searched => Found(Lower(last.arg.query))

\* C20, amended: the same of the query trimmed of surrounding whitespace.
C20_SearchByTrimmedQuery == Searched => Found(Lower(Strip(last.arg.query)))

C20_Witness ==
    /\ Searched /\ last.arg.query = s_N_pad /\ last.arg.exact
    /\ last.arg.fields = <<f_name, f_email>>
    /\ Len(last.pre) = 3 /\ Len(last.out.ret) = 2
    /\ last.pre[2].name = s_M

\* C21: search_contacts with an empty query returns the empty list, also
\* when no field given is an attribute; with a query that is not empty and
\* no field that is an attribute it raises ValueError and returns nothing.
C21_SearchEmptyQueryFirst ==
    last.op = "search" =>
        /\ ~Truthy(last.arg.query) => last.out.err = "none" /\ last.out.ret = <<>>
        /\ (Truthy(last.arg.query) /\ Selected = {}) =>
                /\ last.out.err = "ValueError" /\ last.out.why = "fields"
                /\ last.out.ret = None

C21_Witness ==
    /\ last.op = "search" /\ last.arg.query = <<>> /\ last.arg.fields = <<f_phone>>
    /\ last.out.ret = <<>> /\ Len(last.pre) = 3

\* C22: get_by_email returns the first contact of the list whose email is
\* the argument, both trimmed and lowercased, and None when the argument
\* is empty or no contact has it; view_contact returns the same.
C22_GetFirstMatch ==
    last.op \in {"get", "view"} =>
        /\ last.out.err = "none"
        /\ (~Truthy(last.arg) \/ Matches = {}) => last.out.ret = 0
        /\ (Truthy(last.arg) /\ Matches # {}) =>
                /\ last.out.ret \in Matches
                /\ \A i \in Matches : last.out.ret <= i

C22_Witness ==
    /\ last.op = "view" /\ last.arg = e_A_pad
    /\ Matches = {2, 3} /\ last.out.ret = 2

\* a str is a date written YYYY-MM-DD: four digits, two and two, of a day
\* of the calendar
IsoDate(s) ==
    /\ Len(s) = 10 /\ s[5] = "-" /\ s[8] = "-"
    /\ AllDigits(SubSeq(s, 1, 4)) /\ AllDigits(SubSeq(s, 6, 7)) /\ AllDigits(SubSeq(s, 9, 10))
    /\ NumVal(SubSeq(s, 1, 4)) >= 1
    /\ NumVal(SubSeq(s, 6, 7)) \in 1..12
    /\ NumVal(SubSeq(s, 9, 10)) \in
            1..DaysInMonth(NumVal(SubSeq(s, 1, 4)), NumVal(SubSeq(s, 6, 7)))

\* the birth date the last edit proposed, trimmed
ProposedDate == Strip(last.arg.updates["birth_date"])

\* C23: an edit that proposes a birth date which, trimmed, is not empty
\* and not a date of the calendar written YYYY-MM-DD raises ValueError and
\* changes nothing; an edit that proposes one that is empty when trimmed,
\* or is such a date, and nothing else, returns, and the contact's birth
\* date is None, or the trimmed value.
C23_EditBirthDate ==
    (last.op = "edit" /\ Proposed(last.arg.updates, "birth_date")) =>
        /\ (ProposedDate # <<>> /\ ~IsoDate(ProposedDate)) =>
                /\ last.out.err = "ValueError"
                /\ rolodex[last.self] = last.pre
                /\ fs = last.preFs
        /\ ( /\ ProposedDate = <<>> \/ IsoDate(ProposedDate)
             /\ DOMAIN last.arg.updates = {"birth_date"}
             /\ EditedIdx # 0 ) => last.out.err = "none"
        /\ last.out.err = "none" =>
                rolodex[last.self][EditedIdx].birth_date =
                    IF ProposedDate = <<>> THEN None ELSE ProposedDate

\* C24: an edit that returns leaves the list as long as it was, every
\* other contact as it was and where it was, and every field of the
\* edited contact that is not among the updates as it was.
C24_EditFrame ==
    (last.op = "edit" /\ last.out.err = "none") =>
        LET now == rolodex[last.self]
        IN  /\ Len(now) = Len(last.pre)
            /\ \A i \in 1..Len(last.pre) : i # EditedIdx => now[i] = last.pre[i]
            /\ \A key \in Keys \ DOMAIN last.arg.updates :
                    now[EditedIdx][key] = last.pre[EditedIdx][key]

C24_Witness ==
    /\ last.op = "edit" /\ last.out.err = "none"
    /\ last.arg.updates = [name |-> s_n_pad, address |-> None]
    /\ Len(last.pre) = 2 /\ EditedIdx = 2
    /\ last.pre[2].name = s_M /\ last.pre[2].phone_num = s_p
    /\ rolodex[1][2].name = s_n /\ rolodex[1][2].phone_num = s_p

\* the places of the "@" in a str
Ats(s) == { i \in 1..Len(s) : s[i] = "@" }

\* C29: an edit that proposes an email and returns proposed one that,
\* trimmed, has exactly one "@", a character before it, and after it a
\* domain with a dot between two characters.
C29_EmailShape ==
    (last.op = "edit" /\ Proposed(last.arg.updates, "email") /\ last.out.err = "none") =>
        LET email == Strip(last.arg.updates["email"])
        IN  /\ Cardinality(Ats(email)) = 1
            /\ \A a \in Ats(email) :
                    /\ a > 1
                    /\ \E d \in (a + 2)..(Len(email) - 1) : email[d] = "."

\* C25: every contact of a Rolodex, whatever file it was opened on and
\* whatever calls were made, has a name that is not empty when trimmed.
C25_NameNotEmpty ==
    \A i \in 1..Len(rolodex[1]) : Strip(OrEmpty(rolodex[1][i].name)) # <<>>

\* C30: every contact of a Rolodex, whatever file it was opened on and
\* whatever calls were made, has an email that is not None and not empty
\* when trimmed, and load_contacts admits every contact of the list once
\* the list is saved.
C30_EmailNotBlank ==
    /\ \A i \in 1..Len(rolodex[1]) : Strip(OrEmpty(rolodex[1][i].email)) # <<>>
    /\ load_contacts(ListFile(SaveData(Instances(rolodex[1])))) = rolodex[1]

\* C26: load_contacts of a file, save_contacts of the list it returned to
\* the same path, and load_contacts again returns the contacts the first
\* load returned, in their order, equal in every field.
C26_LoadSaveLoad ==
    (loaded.done /\ sv.pc = "return" /\ ~sv.failed) =>
        /\ ~loaded.raised
        /\ Len(loaded.value) = Len(sv.contacts)
        /\ \A i \in 1..Len(sv.contacts) : loaded.value[i] = sv.contacts[i].c

C26_Witness ==
    /\ loaded.done /\ sv.pc = "return" /\ ~sv.failed
    /\ sv.old = ListFile(<<JDict([name |-> s_blank, email |-> e_a]), JScalar>>)
    /\ fs[file_path] # sv.old
    /\ Len(loaded.value) = 1

\* C27, as claimed: when save_contacts has returned, after the write or
\* after a step that raised, there is no temporary file.
C27_NoTmpAfterReturn ==
    sv.pc = "return" => ~Exists(fs, tmp_path(file_path))

\* C27, amended: when save_contacts has returned after the write there is
\* no temporary file; after a step that raised, the except block removes
\* the temporary file when os.remove does not raise, and leaves every file
\* as it is when os.remove raises.
C27_TmpRemovedBestEffort ==
    /\ (sv.pc = "return" /\ ~sv.failed) => ~Exists(fs, tmp_path(file_path))
    /\ sv.pc = "except" =>
            /\ ~Exists(SaveStep(sv, fs, FALSE).fs, tmp_path(file_path))
            /\ SaveStep(sv, fs, TRUE).fs = fs

C27_Witness ==
    /\ sv.pc = "except"
    /\ fs[tmp_path(file_path)].kind = "partial"
    /\ fs[tmp_path(file_path)].items # <<>>
    /\ sv.old.kind = "list"

\* the contacts a Rolodex opened on file content f would hold
Held(f) == load_contacts(f)

\* the other of the two instances
Other(self) == CHOOSE r \in Rolodexes : r # self

ReadOnly == last.op \in {"list", "get", "view", "search"}

\* C31: after list_contacts, get_by_email, view_contact or search_contacts,
\* whether the call returned or raised ValueError, _contacts holds the same
\* contacts with the same fields in the same order as before the call, and
\* every file is as it was: no save was made.
C31_ReadsChangeNothing ==
    ReadOnly =>
        /\ rolodex[last.self] = last.pre
        /\ fs = last.preFs
        /\ ~last.saved
        /\ sv = SaveIdle

C31_Witness ==
    /\ last.op = "search" /\ last.out.err = "none"
    /\ Len(rolodex[1]) = 3
    /\ Len(last.out.ret) = 1
    /\ last.out.ret[1] = rolodex[1][3]
    /\ rolodex[1] = last.pre
    /\ fs = last.preFs

====
